---- MODULE Spec2Model ----
(***************************************************************************)
(* rmrs: the hybrid parallel deletion engine of src/src/main.rs.            *)
(*                                                                         *)
(* The state is the filesystem (a small tree of named entries plus a       *)
(* number of identical plain files in one directory), the four atomic      *)
(* counters of Stats, the position of the main thread inside               *)
(* parallel_remove_top_level, and the rayon tasks (one per path handed to  *)
(* remove_path_recursive) with the position of each inside its call chain. *)
(* Every filesystem call is one step; a failure of a call is injected      *)
(* nondeterministically, at most MaxFaults times per run.                  *)
(***************************************************************************)
EXTENDS Integers, Sequences, FiniteSets, TLC

\* ---- bounds of the model ----
MaxThreads == 2
MaxRoots == 2
MaxFaults == 1
FillerBytes == 2

\* ---- constants of the program ----
LargeThreshold == 100
max_check == 1000

\* ---- the filesystem universe ----
\* x/ { a (10 bytes), b/ { c (5 bytes) }, d/ { nfill plain files }, l -> t }
\* t/ { f (7 bytes) }             target of the symlink, outside x
\* m                              a path that never exists
Nodes == {"x", "a", "b", "c", "d", "l", "t", "f", "m"}
Top == "/"

parent ==
  [n \in Nodes |->
     CASE n \in {"a", "b", "d", "l"} -> "x"
       [] n = "c" -> "b"
       [] n = "f" -> "t"
       [] OTHER -> Top]

kind ==
  [n \in Nodes |->
     CASE n \in {"x", "b", "d", "t"} -> "dir"
       [] n = "l" -> "symlink"
       [] OTHER -> "file"]

\* metadata.len() of the non-directory entries (never read for a directory)
size == [n \in Nodes |-> CASE n = "a" -> 10 [] n = "c" -> 5 [] n = "f" -> 7
                           [] n = "l" -> 1 [] OTHER -> 0]

LinkTarget == "t"
FillDir == "d"

\* the tree shapes a run starts from
FullTree == {"x", "a", "b", "c", "d", "t", "f"}
LinkTree == FullTree \cup {"l"}
BareTree == {"x", "d", "t", "f"}
Shapes == {FullTree, LinkTree, BareTree}

VARIABLES
  num_threads,  \* N, the size of the rayon pool (main.rs:235)
  paths,        \* the user-supplied roots (main.rs:234)
  exists,       \* the named entries present on disk
  nfill,        \* the number of plain files present in FillDir
  stats,        \* Stats: the four AtomicU64 counters
  main,         \* position of the main thread in parallel_remove_top_level
  idx,          \* loop index of the main thread's two `for path in paths`
  all_items,    \* the slice handed to the top-level par_iter
  task,         \* task id -> [path, pc] for every named path handed over
  fl,           \* the tasks of the plain files of FillDir, by position
  failed,       \* history: the injected failures <<call site, path>>
  hist          \* history: what was read, handed over and added

vars == <<num_threads, paths, exists, nfill, stats, main, idx, all_items,
          task, fl, failed, hist>>

\* =========================================================================
\* Filesystem primitives
\* =========================================================================

Children(n) == {c \in exists : parent[c] = n}

\* n and everything below it
Subtree(n) == {c \in Nodes : c = n \/ parent[c] = n
                              \/ (parent[c] # Top /\ parent[parent[c]] = n)}

FillIn(n) == IF n = FillDir THEN nfill ELSE 0

\* Path::is_dir follows symlinks (stat)
PathIsDir(p) ==
  /\ p \in exists
  /\ \/ kind[p] = "dir"
     \/ kind[p] = "symlink" /\ LinkTarget \in exists

\* fs::read_dir opens the directory a path resolves to
Resolve(p) == IF kind[p] = "symlink" THEN LinkTarget ELSE p

\* FileType::is_dir of symlink_metadata / DirEntry::file_type: never follows
MetaIsDir(p) == kind[p] = "dir"

\* a length taken through the link instead of from the entry itself
EntryLenFollow(e) == size[Resolve(e)]

\* DirEntry::metadata().len() (:172-173) and symlink_metadata(path).len()
\* (:218-219): the length of the entry itself, a symlink's own length
EntryLen(e) == size[e]
PathLen(p) == size[p]

\* fs::remove_dir: the path must be an existing, empty, real directory
RemoveDirOk(p) ==
  p \in exists /\ kind[p] = "dir" /\ Children(p) = {} /\ FillIn(p) = 0

\* fs::remove_file unlinks any non-directory, a symlink included
RemoveFileOk(p) == p \in exists /\ kind[p] # "dir"

\* =========================================================================
\* Stats (main.rs:11-43)
\* =========================================================================

ZeroStats == [files_deleted |-> 0, dirs_deleted |-> 0, bytes_deleted |-> 0,
              errors |-> 0]

\* a plain store of the amount, losing what the counter held
store_only(cur, n) == n

\* AtomicUsize::fetch_add / AtomicU64::fetch_add, one indivisible step
fetch_add(cur, n) == cur + n

increment_files(s) == [s EXCEPT !.files_deleted = fetch_add(@, 1)]
increment_dirs(s) == [s EXCEPT !.dirs_deleted = fetch_add(@, 1)]
add_bytes(s, bytes) == [s EXCEPT !.bytes_deleted = fetch_add(@, bytes)]
\* an error that is logged but not counted
errors_not_counted(s) == s

increment_errors(s) == [s EXCEPT !.errors = fetch_add(@, 1)]

\* a task error dropped without counting it
OnTaskErrSwallow(s) == s

\* the closure of every par_iter: `if let Err(e) = remove_path_recursive(..)`
OnTaskErr(s) == increment_errors(s)

\* =========================================================================
\* Injected failures
\* =========================================================================
\* A call site is named after the function and the call:
\*   top_readdir :63   top_entry :65   top_rmdir :89   rpr_meta :208
\*   hyb_meta :107     est_readdir :136  est_entry :137  est_ftype :143
\*   cnt_readdir :162  cnt_entry :163    cnt_ftype :165  cnt_meta :172
\*   rm_all :157       fan_readdir :182  fan_entry :183  fan_rmdir :196
\*   file_meta :218    rm_file :222
\* top_vanish / fan_vanish: another process removes the directory just before
\* the remove_dir of :89 / :196, which then returns NotFound.

Budget == MaxFaults - Cardinality(failed)

RECURSIVE UpTo(_, _)
UpTo(S, k) ==
  IF k <= 0 THEN {{}}
  ELSE LET prev == UpTo(S, k - 1)
       IN prev \cup {B \cup {pt} : B \in prev, pt \in S}

\* the failures that may be injected into one step that makes the calls S
FaultSets(S) == UpTo(S \ failed, Budget)

\* =========================================================================
\* estimate_dir_size (main.rs:126-151)
\* =========================================================================

\* read_dir yields the entries in an unspecified order; a fixed one is used,
\* in which FillDir comes last of its directory
RECURSIVE SetToSeq(_)
SetToSeq(S) ==
  IF S = {} THEN <<>>
  ELSE LET e == CHOOSE e \in S : S # {FillDir} => e # FillDir
       IN <<e>> \o SetToSeq(S \ {e})

\* the `for entry in fs::read_dir(&dir)?` loop over the named entries ents,
\* then over the k plain files of the directory
RECURSIVE EstEntries(_, _, _, _, _, _)
EstEntries(ents, k, count, stack, bad, hit) ==
  IF ents = <<>>
  THEN IF count + k > max_check
       THEN [ok |-> TRUE, count |-> max_check + 1, stack |-> stack, hit |-> hit]
       ELSE [ok |-> TRUE, count |-> count + k, stack |-> stack, hit |-> hit]
  ELSE LET e == Head(ents) IN
       IF <<"est_entry", e>> \in bad
       THEN EstEntries(Tail(ents), k, count, stack, bad,
                       hit \cup {<<"est_entry", e>>})
       ELSE IF count + 1 > max_check
       THEN [ok |-> TRUE, count |-> count + 1, stack |-> stack, hit |-> hit]
       ELSE IF <<"est_ftype", e>> \in bad
       THEN [ok |-> FALSE, count |-> count + 1, stack |-> stack,
             hit |-> hit \cup {<<"est_ftype", e>>}]
       ELSE EstEntries(Tail(ents), k, count + 1,
                       IF MetaIsDir(e) THEN Append(stack, e) ELSE stack,
                       bad, hit)

\* the `while let Some(dir) = dirs_to_check.pop()` loop; seen records the
\* directories handed to read_dir, each with the count at that moment
RECURSIVE EstLoop(_, _, _, _, _)
EstLoop(stack, count, bad, hit, seen) ==
  IF stack = <<>> THEN [ok |-> TRUE, count |-> count, hit |-> hit, seen |-> seen]
  ELSE LET dir == stack[Len(stack)]
           rest == SubSeq(stack, 1, Len(stack) - 1)
           now == Append(seen, <<dir, count>>)
       IN IF count > max_check
          THEN [ok |-> TRUE, count |-> count, hit |-> hit, seen |-> seen]
          ELSE IF <<"est_readdir", dir>> \in bad
          THEN [ok |-> FALSE, count |-> count,
                hit |-> hit \cup {<<"est_readdir", dir>>}, seen |-> now]
          ELSE IF dir \notin exists
          THEN [ok |-> FALSE, count |-> count, hit |-> hit, seen |-> now]
          ELSE \* r is what the for loop over dir left behind (bound as a
               \* set element, so that it is computed once)
               CHOOSE out \in
                 {IF r.ok THEN EstLoop(r.stack, r.count, bad, r.hit, now)
                  ELSE [ok |-> FALSE, count |-> r.count, hit |-> r.hit,
                        seen |-> now] :
                    r \in {EstEntries(SetToSeq(Children(dir)), FillIn(dir),
                                      count, rest, bad, hit)}} : TRUE

\* a probe that looks at the entries of the directory itself only
estimate_top_only(path, bad) ==
  [ok |-> TRUE, count |-> Cardinality(Children(path)) + FillIn(path), hit |-> {}]

\* a probe that counts the whole subtree, however large
estimate_no_cap(path, bad) ==
  [ok |-> TRUE,
   count |-> Cardinality((Subtree(path) \ {path}) \cap exists)
               + (IF FillDir \in Subtree(path) \cap exists THEN nfill ELSE 0),
   hit |-> {}, seen |-> <<>>]

estimate_dir_size(path, bad) == EstLoop(<<path>>, 0, bad, {}, <<>>)

EstPoints(p) ==
  LET below == (Subtree(p) \ {p}) \cap exists IN
  {<<"est_readdir", q>> : q \in {q \in Subtree(p) \cap exists : MetaIsDir(q)}}
    \cup {<<"est_ftype", e>> : e \in below}
    \cup {<<"est_entry", e>> : e \in below}

\* =========================================================================
\* count_items_in_dir (main.rs:161-179)
\* =========================================================================
\* The result of a walk: whether it returned Ok, what it added to the
\* counters, and the injected failures it met.

Walked(ok, f, d, b, hit) ==
  [ok |-> ok, files |-> f, dirs |-> d, bytes |-> b, hit |-> hit]

\* (a and b are bound as set elements, so that each is computed once)
Plus(o1, o2) ==
  CHOOSE w \in {Walked(a.ok /\ b.ok, a.files + b.files, a.dirs + b.dirs,
                       a.bytes + b.bytes, a.hit \cup b.hit) :
                  a \in {o1}, b \in {o2}} : TRUE

\* the sum of the (single) results of the entries of S
RECURSIVE SumOf(_, _)
SumOf(S, outs) ==
  IF S = {} THEN Walked(TRUE, 0, 0, 0, {})
  ELSE LET e == CHOOSE e \in S : TRUE
       IN Plus(CHOOSE o \in outs[e] : TRUE, SumOf(S \ {e}, outs))

\* The set of results the walk of `path` can have: with no failure it is the
\* one full count; a failing entry ends the walk (the `?` of :162, :165,
\* :169) after the entries read_dir happened to yield before it.
RECURSIVE count_items_in_dir(_, _)
count_items_in_dir(path, bad) ==
  IF <<"cnt_readdir", path>> \in bad
  THEN {Walked(FALSE, 0, 0, 0, {<<"cnt_readdir", path>>})}
  ELSE IF path \notin exists THEN {Walked(FALSE, 0, 0, 0, {})}
  ELSE
    LET ents == Children(path)
        skipped == {e \in ents : <<"cnt_entry", e>> \in bad}
        live == ents \ skipped
        k == FillIn(path)
        Out(e) ==
          IF <<"cnt_ftype", e>> \in bad
          THEN {Walked(FALSE, 0, 0, 0, {<<"cnt_ftype", e>>})}
          ELSE IF MetaIsDir(e)
          THEN {Plus(Walked(TRUE, 0, 1, 0, {}), o) :
                  o \in count_items_in_dir(e, bad)}
          ELSE IF <<"cnt_meta", e>> \in bad
          THEN {Walked(TRUE, 1, 0, 0, {<<"cnt_meta", e>>})}
          ELSE {Walked(TRUE, 1, 0, EntryLen(e), {})}
        Skip(S) == Walked(TRUE, 0, 0, 0, {<<"cnt_entry", e>> : e \in S})
        Fill(j) == Walked(TRUE, j, 0, j * FillerBytes, {})
        outs == [e \in live |-> Out(e)]
        good == {e \in live : \A o \in outs[e] : o.ok}
    IN IF good = live
       THEN {Plus(SumOf(live, outs), Plus(Skip(skipped), Fill(k)))}
       ELSE {Plus(Plus(SumOf(q[1], outs), q[4]), Plus(Skip(q[2]), Fill(q[3]))) :
               q \in (SUBSET good) \X (SUBSET skipped) \X (0..k) \X
                     UNION {outs[e] : e \in live \ good}}

CntPoints(p) ==
  LET below == (Subtree(p) \ {p}) \cap exists IN
  {<<"cnt_readdir", q>> : q \in {q \in Subtree(p) \cap exists : MetaIsDir(q)}}
    \cup {<<"cnt_ftype", e>> : e \in below}
    \cup {<<"cnt_entry", e>> : e \in below}
    \cup {<<"cnt_meta", e>> : e \in {e \in below : ~MetaIsDir(e)}}

\* =========================================================================
\* History (not program state): read only by the properties
\* =========================================================================

Sat(n) == IF n >= 2 THEN 2 ELSE n + 1

\* the amounts handed to fetch_add so far, per counter
Added(h, f, d, b, e) ==
  [h EXCEPT !.added = [files_deleted |-> @.files_deleted + f,
                       dirs_deleted |-> @.dirs_deleted + d,
                       bytes_deleted |-> @.bytes_deleted + b,
                       errors |-> @.errors + e]]
\* p was handed to remove_path_recursive
Handed(h, p) == [h EXCEPT !.handed[p] = Sat(@)]
\* a delete call (remove_file, remove_dir, remove_dir_all) was made on p
DelCall(h, p) == [h EXCEPT !.delcalls[p] = Sat(@)]
\* the directory q was listed to hand its entries over (:63, :182)
Listed(h, q) == [h EXCEPT !.listed = @ \cup {q}]

\* =========================================================================
\* The rayon pool
\* =========================================================================

ActivePc == {"hybrid", "estimate", "count", "rmall", "list", "file", "unlink"}

\* the tasks a worker thread is executing right now (a task blocked in the
\* par_iter of its fan-out lends its thread to other tasks)
Busy ==
  Cardinality({id \in DOMAIN task : task[id].pc \in ActivePc})
    + fl.file + fl.unlink

Kids(id) ==
  {c \in DOMAIN task : Len(c) = Len(id) + 1 /\ SubSeq(c, 1, Len(id)) = id}

FlDone == fl.todo = 0 /\ fl.file = 0 /\ fl.unlink = 0

\* par_iter().for_each returns: every task of the slice has returned
JoinedTop ==
  /\ \A id \in DOMAIN task : Len(id) = 1 => task[id].pc = "done"
  /\ (fl.made /\ fl.owner = <<>>) => FlDone

\* a fan-out that does not wait for its par_iter
NoBarrier(id) == TRUE

\* a par_iter that is never seen to return
NeverJoined(id) == FALSE

Joined(id) ==
  /\ \A c \in Kids(id) : task[c].pc = "done"
  /\ (fl.made /\ fl.owner = id) => FlDone

NewTasks(ids, path(_)) == [id \in ids |-> [path |-> path(id), pc |-> "todo"]]

\* =========================================================================
\* Init
\* =========================================================================

RootChoice == {"x", "a", "b", "d", "l", "m"}
RootLists == UNION {[1..n -> RootChoice] : n \in 1..MaxRoots}

\* the numbers of plain files in FillDir that put x just below, at, and (in
\* the bare tree) FillDir itself at the threshold of hybrid_remove
Fills(shape) ==
  LET named == Cardinality((Subtree("x") \ {"x"}) \cap shape)
  IN {0, LargeThreshold - 1 - named, LargeThreshold - named}
       \cup (IF shape = BareTree THEN {LargeThreshold} ELSE {})

\* the plain files of FillDir are handed out by one listing at most
CoversFill(ps) == {i \in 1..Len(ps) : ps[i] \in {"x", FillDir}}

Init ==
  /\ num_threads \in 1..MaxThreads
  /\ paths \in RootLists
  /\ exists \in Shapes
  /\ nfill \in Fills(exists)
  /\ nfill > 0 => Cardinality(CoversFill(paths)) <= 1
  /\ stats = ZeroStats
  /\ main = "begin"
  /\ idx = 1
  /\ all_items = <<>>
  /\ task = <<>>
  /\ fl = [owner |-> <<>>, made |-> FALSE, todo |-> 0, file |-> 0, unlink |-> 0]
  /\ failed = {}
  /\ hist = [added |-> ZeroStats,
             handed |-> [n \in Nodes |-> 0],
             delcalls |-> [n \in Nodes |-> 0],
             listed |-> {},
             lists |-> 0,
             summary |-> <<>>,
             tree0 |-> exists,
             fill0 |-> nfill]

\* =========================================================================
\* parallel_remove_top_level (main.rs:46-103)
\* =========================================================================

Direct == Len(paths) >= num_threads

\* :50-56  paths.par_iter(): one task per root
DispatchRoots ==
  /\ main = "begin"
  /\ Direct
  /\ all_items' = paths
  /\ task' = NewTasks({<<i>> : i \in 1..Len(paths)}, LAMBDA id : paths[id[1]])
  /\ main' = "par"
  /\ UNCHANGED <<num_threads, paths, exists, nfill, stats, idx, fl, failed, hist>>

TopPoints(path) ==
  IF PathIsDir(path)
  THEN {<<"top_readdir", path>>}
         \cup {<<"top_entry", e>> : e \in Children(Resolve(path))}
  ELSE {}

\* :61-76  one turn of `for path in paths`; after the last one, :79 hands
\* all_items to par_iter
FlattenRoot ==
  /\ main \in {"begin", "flatten"}
  /\ ~Direct
  /\ \E bad \in FaultSets(TopPoints(paths[idx])) :
       LET path == paths[idx]
           listed == PathIsDir(path) /\ <<"top_readdir", path>> \notin bad
           dir == Resolve(path)
           ents == {e \in Children(dir) : <<"top_entry", e>> \notin bad}
           items == IF listed THEN all_items \o SetToSeq(ents)
                    ELSE Append(all_items, path)
           k == IF listed THEN FillIn(dir) ELSE 0
       IN /\ <<"top_readdir", path>> \in bad => bad = {<<"top_readdir", path>>}
          /\ all_items' = items
          /\ failed' = failed \cup bad
          /\ fl' = IF k > 0
                   THEN [fl EXCEPT !.made = TRUE, !.owner = <<>>, !.todo = @ + k]
                   ELSE fl
          /\ hist' = IF listed
                     THEN [Listed(hist, dir) EXCEPT
                             !.lists = IF k > 0 THEN Sat(@) ELSE @]
                     ELSE hist
          /\ IF idx = Len(paths)
             THEN /\ main' = "par"
                  /\ idx' = 1
                  /\ task' = NewTasks({<<i>> : i \in 1..Len(items)},
                                      LAMBDA id : items[id[1]])
             ELSE /\ main' = "flatten"
                  /\ idx' = idx + 1
                  /\ task' = task
  /\ UNCHANGED <<num_threads, paths, exists, nfill, stats>>

\* :56 / :84  the top-level par_iter returns
ParJoin ==
  /\ main = "par"
  /\ JoinedTop
  /\ main' = IF Direct THEN "summary" ELSE "cleanup"
  /\ idx' = 1
  /\ UNCHANGED <<num_threads, paths, exists, nfill, stats, all_items, task,
                 fl, failed, hist>>

\* a root removed by the cleanup pass but not counted
CleanupRemovedForgot(s) == s

\* :94-96  the root directory was removed
CleanupRemoved(s) == increment_dirs(s)

\* :87-98  one turn of the cleanup loop
Cleanup ==
  /\ main = "cleanup"
  /\ LET path == paths[idx] IN
     /\ IF ~PathIsDir(path)
        THEN UNCHANGED <<exists, nfill, stats, failed, hist>>
        ELSE \E bad \in FaultSets({<<"top_rmdir", path>>, <<"top_vanish", path>>}) :
               /\ Cardinality(bad) <= 1
               /\ failed' = failed \cup bad
               /\ IF bad = {<<"top_vanish", path>>}
                  THEN \* NotFound: neither counter moves (:90)
                       /\ exists' = exists \ Subtree(path)
                       /\ nfill' = IF FillDir \in Subtree(path) THEN 0 ELSE nfill
                       /\ stats' = stats
                       /\ hist' = DelCall(hist, path)
                  ELSE IF bad = {} /\ RemoveDirOk(path)
                  THEN /\ exists' = exists \ {path}
                       /\ nfill' = nfill
                       /\ stats' = CleanupRemoved(stats)
                       /\ hist' = Added(DelCall(hist, path), 0, 1, 0, 0)
                  ELSE /\ UNCHANGED <<exists, nfill>>
                       /\ stats' = increment_errors(stats)
                       /\ hist' = Added(DelCall(hist, path), 0, 0, 0, 1)
     /\ IF idx = Len(paths)
        THEN main' = "summary" /\ idx' = 1
        ELSE main' = "cleanup" /\ idx' = idx + 1
  /\ UNCHANGED <<num_threads, paths, all_items, task, fl>>

\* :101-102  stats.print_summary(); Ok(())
PrintSummary ==
  /\ main = "summary"
  /\ hist' = [hist EXCEPT !.summary = <<stats>>]
  /\ main' = "done"
  /\ UNCHANGED <<num_threads, paths, exists, nfill, stats, idx, all_items,
                 task, fl, failed>>

\* =========================================================================
\* The task of one named path: remove_path_recursive and what it calls
\* =========================================================================

Goto(id, pc) == [task EXCEPT ![id].pc = pc]

\* the task returns Err to the closure of its par_iter (:52-55, :80-83,
\* :189-192), which counts one error
ReturnErr(id, h) ==
  /\ task' = Goto(id, "done")
  /\ stats' = OnTaskErr(stats)
  /\ hist' = Added(h, 0, 0, 0, 1)

\* :207-215  a worker takes the task: symlink_metadata(path)?, then the
\* choice between hybrid_remove and remove_file_with_stats
RemovePathRecursive(id) ==
  /\ task[id].pc = "todo"
  /\ Busy < num_threads
  /\ LET p == task[id].path IN
     \E bad \in FaultSets({<<"rpr_meta", p>>}) :
       /\ failed' = failed \cup bad
       /\ IF bad # {} \/ p \notin exists
          THEN ReturnErr(id, Handed(hist, p))
          ELSE /\ task' = Goto(id, IF MetaIsDir(p) /\ kind[p] # "symlink"
                                   THEN "hybrid" ELSE "file")
               /\ stats' = stats
               /\ hist' = Handed(hist, p)
  /\ UNCHANGED <<num_threads, paths, exists, nfill, main, idx, all_items, fl>>

\* :107-112  hybrid_remove: symlink_metadata(path)?, files go to
\* remove_file_with_stats
HybridRemove(id) ==
  /\ task[id].pc = "hybrid"
  /\ LET p == task[id].path IN
     \E bad \in FaultSets({<<"hyb_meta", p>>}) :
       /\ failed' = failed \cup bad
       /\ IF bad # {} \/ p \notin exists
          THEN ReturnErr(id, hist)
          ELSE /\ task' = Goto(id, IF MetaIsDir(p) THEN "estimate" ELSE "file")
               /\ UNCHANGED <<stats, hist>>
  /\ UNCHANGED <<num_threads, paths, exists, nfill, main, idx, all_items, fl>>

\* :115-123  estimate_dir_size(path)?, then the size class
Estimate(id) ==
  /\ task[id].pc = "estimate"
  /\ LET p == task[id].path IN
     \E bad \in FaultSets(EstPoints(p)) :
       LET r == estimate_dir_size(p, bad) IN
       /\ r.hit = bad
       /\ failed' = failed \cup bad
       /\ IF ~r.ok
          THEN ReturnErr(id, hist)
          ELSE /\ task' = Goto(id, IF r.count < LargeThreshold
                                   THEN "count" ELSE "list")
               /\ UNCHANGED <<stats, hist>>
  /\ UNCHANGED <<num_threads, paths, exists, nfill, main, idx, all_items, fl>>

\* what a walk adds to the counters: the fetch_add(1) of every entry counted
\* and the fetch_add(len) of every file, summed per counter
Counted(s, o) ==
  [s EXCEPT !.files_deleted = fetch_add(@, o.files),
            !.dirs_deleted = fetch_add(@, o.dirs),
            !.bytes_deleted = fetch_add(@, o.bytes)]

\* :155  remove_dir_all_with_stats: count_items_in_dir(path, stats)?
CountItems(id) ==
  /\ task[id].pc = "count"
  /\ LET p == task[id].path IN
     \E bad \in FaultSets(CntPoints(p)) :
       \E o \in count_items_in_dir(p, bad) :
         /\ o.hit = bad
         /\ failed' = failed \cup bad
         /\ IF o.ok
            THEN /\ task' = Goto(id, "rmall")
                 /\ stats' = Counted(stats, o)
                 /\ hist' = Added(hist, o.files, o.dirs, o.bytes, 0)
            ELSE /\ task' = Goto(id, "done")
                 /\ stats' = OnTaskErr(Counted(stats, o))
                 /\ hist' = Added(hist, o.files, o.dirs, o.bytes, 1)
  /\ UNCHANGED <<num_threads, paths, exists, nfill, main, idx, all_items, fl>>

\* :157  fs::remove_dir_all(path)?
RemoveDirAll(id) ==
  /\ task[id].pc = "rmall"
  /\ LET p == task[id].path IN
     \E bad \in FaultSets({<<"rm_all", p>>}) :
       /\ failed' = failed \cup bad
       /\ IF bad # {} \/ p \notin exists
          THEN /\ ReturnErr(id, DelCall(hist, p))
               /\ UNCHANGED <<exists, nfill>>
          ELSE /\ exists' = exists \ Subtree(p)
               /\ nfill' = IF FillDir \in Subtree(p) THEN 0 ELSE nfill
               /\ task' = Goto(id, "done")
               /\ stats' = stats
               /\ hist' = DelCall(hist, p)
  /\ UNCHANGED <<num_threads, paths, main, idx, all_items, fl>>

FanPoints(p) ==
  {<<"fan_readdir", p>>} \cup {<<"fan_entry", e>> : e \in Children(p)}

\* :182-188  parallel_remove_large_dir: read_dir(path)?, the entries that
\* are Ok are handed to par_iter
FanOutList(id) ==
  /\ task[id].pc = "list"
  /\ LET p == task[id].path IN
     \E bad \in FaultSets(FanPoints(p)) :
       /\ <<"fan_readdir", p>> \in bad => bad = {<<"fan_readdir", p>>}
       /\ failed' = failed \cup bad
       /\ IF <<"fan_readdir", p>> \in bad \/ p \notin exists
          THEN /\ ReturnErr(id, hist)
               /\ fl' = fl
          ELSE LET ents == {e \in Children(p) : <<"fan_entry", e>> \notin bad}
                   k == FillIn(p)
               IN /\ task' = Goto(id, "join") @@
                             NewTasks({Append(id, e) : e \in ents},
                                      LAMBDA c : c[Len(c)])
                  /\ fl' = IF k > 0
                           THEN [fl EXCEPT !.made = TRUE, !.owner = id,
                                           !.todo = @ + k]
                           ELSE fl
                  /\ stats' = stats
                  /\ hist' = [Listed(hist, p) EXCEPT
                                !.lists = IF k > 0 THEN Sat(@) ELSE @]
  /\ UNCHANGED <<num_threads, paths, exists, nfill, main, idx, all_items>>

\* :193-204  the par_iter has returned; fs::remove_dir(path), Ok(())
FanOutRemoveDir(id) ==
  /\ task[id].pc = "join"
  /\ Joined(id)
  /\ Busy < num_threads
  /\ LET p == task[id].path IN
     \E bad \in FaultSets({<<"fan_rmdir", p>>, <<"fan_vanish", p>>}) :
       /\ Cardinality(bad) <= 1
       /\ failed' = failed \cup bad
       /\ task' = Goto(id, "done")
       /\ IF bad = {} /\ RemoveDirOk(p)
          THEN /\ exists' = exists \ {p}
               /\ nfill' = nfill
               /\ stats' = increment_dirs(stats)
               /\ hist' = Added(DelCall(hist, p), 0, 1, 0, 0)
          ELSE /\ exists' = IF bad = {<<"fan_vanish", p>>}
                            THEN exists \ Subtree(p) ELSE exists
               /\ nfill' = IF bad = {<<"fan_vanish", p>>} /\ FillDir \in Subtree(p)
                           THEN 0 ELSE nfill
               /\ stats' = increment_errors(stats)
               /\ hist' = Added(DelCall(hist, p), 0, 0, 0, 1)
  /\ UNCHANGED <<num_threads, paths, main, idx, all_items, fl>>

\* :218-220  remove_file_with_stats: the size, when symlink_metadata is Ok
FileMeta(id) ==
  /\ task[id].pc = "file"
  /\ LET p == task[id].path IN
     \E bad \in FaultSets({<<"file_meta", p>>}) :
       /\ failed' = failed \cup bad
       /\ task' = Goto(id, "unlink")
       /\ IF bad = {} /\ p \in exists
          THEN /\ stats' = add_bytes(stats, PathLen(p))
               /\ hist' = Added(hist, 0, 0, size[p], 0)
          ELSE UNCHANGED <<stats, hist>>
  /\ UNCHANGED <<num_threads, paths, exists, nfill, main, idx, all_items, fl>>

\* :222-224  fs::remove_file(path)?; stats.increment_files()
RemoveFile(id) ==
  /\ task[id].pc = "unlink"
  /\ LET p == task[id].path IN
     \E bad \in FaultSets({<<"rm_file", p>>}) :
       /\ failed' = failed \cup bad
       /\ IF bad = {} /\ RemoveFileOk(p)
          THEN /\ exists' = exists \ {p}
               /\ task' = Goto(id, "done")
               /\ stats' = increment_files(stats)
               /\ hist' = Added(DelCall(hist, p), 1, 0, 0, 0)
          ELSE /\ exists' = exists
               /\ ReturnErr(id, DelCall(hist, p))
  /\ UNCHANGED <<num_threads, paths, nfill, main, idx, all_items, fl>>

\* =========================================================================
\* The tasks of the plain files of FillDir (the same code, :207-225): fl
\* counts them by position. A plain file is present as long as its own task
\* has not unlinked it and no remove_dir_all has removed FillDir.
\* =========================================================================

FlRunning ==
  /\ fl.made
  /\ IF fl.owner = <<>> THEN main = "par" ELSE task[fl.owner].pc = "join"

\* :208-213  symlink_metadata(path)?; a plain file goes to :217
FillerRemovePathRecursive ==
  /\ FlRunning
  /\ fl.todo > 0
  /\ Busy < num_threads
  /\ IF nfill > 0
     THEN /\ fl' = [fl EXCEPT !.todo = @ - 1, !.file = @ + 1]
          /\ UNCHANGED <<stats, hist>>
     ELSE /\ fl' = [fl EXCEPT !.todo = @ - 1]
          /\ stats' = OnTaskErr(stats)
          /\ hist' = Added(hist, 0, 0, 0, 1)
  /\ UNCHANGED <<num_threads, paths, exists, nfill, main, idx, all_items,
                 task, failed>>

\* :218-220
FillerFileMeta ==
  /\ fl.file > 0
  /\ fl' = [fl EXCEPT !.file = @ - 1, !.unlink = @ + 1]
  /\ IF nfill > 0
     THEN /\ stats' = add_bytes(stats, FillerBytes)
          /\ hist' = Added(hist, 0, 0, FillerBytes, 0)
     ELSE UNCHANGED <<stats, hist>>
  /\ UNCHANGED <<num_threads, paths, exists, nfill, main, idx, all_items,
                 task, failed>>

\* :222-224
FillerRemoveFile ==
  /\ fl.unlink > 0
  /\ fl' = [fl EXCEPT !.unlink = @ - 1]
  /\ IF nfill > 0
     THEN /\ nfill' = nfill - 1
          /\ stats' = increment_files(stats)
          /\ hist' = Added(hist, 1, 0, 0, 0)
     ELSE /\ nfill' = nfill
          /\ stats' = OnTaskErr(stats)
          /\ hist' = Added(hist, 0, 0, 0, 1)
  /\ UNCHANGED <<num_threads, paths, exists, main, idx, all_items, task, failed>>

\* =========================================================================
\* The specification
\* =========================================================================

Next ==
  \/ DispatchRoots
  \/ FlattenRoot
  \/ ParJoin
  \/ Cleanup
  \/ PrintSummary
  \/ \E id \in DOMAIN task : RemovePathRecursive(id)
  \/ \E id \in DOMAIN task : HybridRemove(id)
  \/ \E id \in DOMAIN task : Estimate(id)
  \/ \E id \in DOMAIN task : CountItems(id)
  \/ \E id \in DOMAIN task : RemoveDirAll(id)
  \/ \E id \in DOMAIN task : FanOutList(id)
  \/ \E id \in DOMAIN task : FanOutRemoveDir(id)
  \/ \E id \in DOMAIN task : FileMeta(id)
  \/ \E id \in DOMAIN task : RemoveFile(id)
  \/ FillerRemovePathRecursive
  \/ FillerFileMeta
  \/ FillerRemoveFile

Spec == Init /\ [][Next]_vars

\* =========================================================================
\* The tree before the run
\* =========================================================================

RECURSIVE SumSize(_)
SumSize(S) ==
  IF S = {} THEN 0
  ELSE LET e == CHOOSE e \in S : TRUE IN size[e] + SumSize(S \ {e})

\* the named entries below r, and the plain files below r, before the run
Below0(r) == (Subtree(r) \ {r}) \cap hist.tree0
Fill0(r) == IF FillDir \in Subtree(r) \cap hist.tree0 THEN hist.fill0 ELSE 0

Entries0(r) == Cardinality(Below0(r)) + Fill0(r)
FilesIn0(r) == Cardinality({n \in Below0(r) : kind[n] # "dir"}) + Fill0(r)
DirsIn0(r) == Cardinality({n \in Below0(r) : kind[n] = "dir"})
BytesIn0(r) ==
  SumSize({n \in Below0(r) : kind[n] # "dir"}) + Fill0(r) * FillerBytes

\* what is gone at the end, of what was below r
GoneFiles(r) ==
  Cardinality({n \in Below0(r) \ exists : kind[n] # "dir"}) + (Fill0(r) - FillIn(FillDir))
GoneDirs(r) == Cardinality({n \in (Below0(r) \cup {r}) \ exists : kind[n] = "dir"})
GoneBytes(r) ==
  SumSize({n \in Below0(r) \ exists : kind[n] # "dir"})
    + (Fill0(r) - FillIn(FillDir)) * FillerBytes

Done == main = "done"
NoFailure == failed = {}
AllTasksDone == (\A id \in DOMAIN task : task[id].pc = "done") /\ FlDone

\* sanity: the plain files are handed out by one listing
OneFillerListing == hist.lists <= 1

\* =========================================================================
\* Properties
\* =========================================================================

\* C1: after a run on the single root x in which no filesystem call failed,
\* files_deleted is the number of non-directory entries of the tree and
\* dirs_deleted the number of its directory entries, whichever path removed
\* each directory.
C1_ExactCounts ==
  (Done /\ NoFailure /\ paths = <<"x">>) =>
    /\ stats.files_deleted = FilesIn0("x")
    /\ stats.dirs_deleted = DirsIn0("x")

\* C2: a root that does not exist moves no counter, errors included: roots
\* that are all missing leave the four counters at 0, and the roots
\* <<missing, a (10 bytes)>> end with files_deleted = 1, bytes_deleted = 10,
\* errors = 0.
C2_MissingPathIsNoOp ==
  (Done /\ NoFailure) =>
    /\ (\A i \in 1..Len(paths) : paths[i] = "m") => stats = ZeroStats
    /\ (paths = <<"m", "a">> /\ "a" \in hist.tree0) =>
         /\ stats.files_deleted = 1
         /\ stats.bytes_deleted = 10
         /\ stats.errors = 0

\* C3: the symlink l -> t is removed as one entity wherever it stands: the
\* target t and its entry f stay on disk, t is never listed to hand its
\* entries over, and f is never handed to remove_path_recursive.
C3_SymlinkNeverTraversed ==
  "l" \in hist.tree0 =>
    /\ "t" \in exists /\ "f" \in exists
    /\ "t" \notin hist.listed
    /\ hist.handed["f"] = 0

\* the call sites that delete or list
DeleteSites ==
  {"rm_file", "rm_all", "fan_rmdir", "top_rmdir",
   "fan_readdir", "top_readdir", "est_readdir", "cnt_readdir"}

\* C4: when delete or listing calls failed during a run on the root x, each
\* failure is in errors, and the success counters hold nothing for entries
\* that are still on disk: files_deleted, dirs_deleted and bytes_deleted do
\* not exceed what is gone.
C4_FailedDeleteCountsNothing ==
  (Done /\ paths = <<"x">> /\ failed # {}
     /\ \A pt \in failed : pt[1] \in DeleteSites) =>
    /\ stats.errors >= Cardinality(failed)
    /\ stats.files_deleted <= GoneFiles("x")
    /\ stats.dirs_deleted <= GoneDirs("x")
    /\ stats.bytes_deleted <= GoneBytes("x")

\* C5: the root x holding a (10 bytes), b/ with c (5 bytes) and the empty d/
\* ends, for every N, with files_deleted = 2, dirs_deleted = 2,
\* bytes_deleted = 15, errors = 0 and x gone.
C5_Scenario ==
  (Done /\ NoFailure /\ paths = <<"x">> /\ hist.tree0 = FullTree
     /\ hist.fill0 = 0) =>
    /\ stats = [files_deleted |-> 2, dirs_deleted |-> 2, bytes_deleted |-> 15,
                errors |-> 0]
    /\ "x" \notin exists

\* What the run with one worker adds to dirs_deleted for the directory p: a
\* small directory is walked (its directories below are counted, p is not),
\* a large one is counted when its remove_dir succeeds, after its
\* directories were handled the same way.
RECURSIVE OneWorkerDirs(_)
OneWorkerDirs(p) ==
  IF Entries0(p) < LargeThreshold THEN DirsIn0(p)
  ELSE LET sub == {c \in hist.tree0 : parent[c] = p /\ kind[c] = "dir"}
           f[S \in SUBSET sub] ==
             IF S = {} THEN 0
             ELSE LET c == CHOOSE c \in S : TRUE
                  IN OneWorkerDirs(c) + f[S \ {c}]
       IN 1 + f[sub]

OneWorkerResult(p) ==
  [files_deleted |-> FilesIn0(p), dirs_deleted |-> OneWorkerDirs(p),
   bytes_deleted |-> BytesIn0(p), errors |-> 0]

LargeTree == Entries0("x") >= LargeThreshold

\* C6: for the root x with at least LargeThreshold entries, the four
\* counters at the end of a run without failures are the ones of the run
\* with a single worker, for every N and every interleaving of the tasks.
C6_SameAsOneWorker ==
  (Done /\ NoFailure /\ paths = <<"x">> /\ LargeTree) =>
    stats = OneWorkerResult("x")

\* C6 witness: a run with two workers over a large tree whose large
\* directory d was fanned out inside x has ended.
C6_Witness ==
  /\ Done /\ NoFailure /\ paths = <<"x">> /\ LargeTree
  /\ num_threads = 2
  /\ hist.fill0 >= LargeThreshold
  /\ stats.dirs_deleted = 2

\* C7: on a static tree without failures, bytes_deleted ends as the sum of
\* the lengths of all the non-directory entries below the root directory (a
\* symlink counting its own length), whichever of the walk and the single
\* removal counted each file, for every N.
C7_BytesAreTheSum ==
  (Done /\ NoFailure /\ Len(paths) = 1 /\ paths[1] \in {"x", "b", "d"}
     /\ paths[1] \in hist.tree0) =>
    stats.bytes_deleted = BytesIn0(paths[1])

\* C7 witness: a tree with the symlink was deleted, x walked as a whole
C7_Witness ==
  /\ Done /\ NoFailure /\ paths = <<"x">>
  /\ "l" \in hist.tree0 /\ ~LargeTree /\ hist.fill0 > 0
  /\ num_threads = 1
  /\ stats.bytes_deleted = 16 + hist.fill0 * FillerBytes

CounterNames == {"files_deleted", "dirs_deleted", "bytes_deleted", "errors"}

\* C8: no step lowers a counter; the counters always hold the sum of the
\* amounts added so far; and the summary is read once, after every task
\* and the cleanup have ended, and shows the final counters.
C8_CountersAddUp ==
  /\ [](stats = hist.added)
  /\ []((main \in {"summary", "done"}) => AllTasksDone)
  /\ [](Done => hist.summary = <<stats>>)
  /\ [](~Done => hist.summary = <<>>)
  /\ [][\A c \in CounterNames : stats'[c] >= stats[c]]_vars
  /\ [][main = "cleanup" => AllTasksDone']_vars

\* C8 witness: two workers were adding to the counters at the same time
C8_Witness ==
  /\ num_threads = 2
  /\ Cardinality({id \in DOMAIN task : task[id].pc = "unlink"}) = 2
  /\ stats.bytes_deleted > 0

\* the call sites whose failure makes the task return Err or count an error
ErrSites ==
  {"rpr_meta", "hyb_meta", "est_readdir", "est_ftype", "cnt_readdir",
   "cnt_ftype", "rm_all", "fan_readdir", "fan_rmdir", "fan_vanish", "rm_file",
   "top_rmdir"}

\* the main thread is not blocked, or a worker is inside a call, or a free
\* worker has a task to take or a joined fan-out to resume
SomeoneCanStep ==
  \/ main \in {"begin", "flatten", "cleanup", "summary"}
  \/ main = "par" /\ JoinedTop
  \/ Busy > 0
  \/ /\ Busy < num_threads
     /\ \/ \E id \in DOMAIN task : task[id].pc = "todo"
        \/ \E id \in DOMAIN task : task[id].pc = "join" /\ Joined(id)
        \/ FlRunning /\ fl.todo > 0

\* C9: a failure never stops the run nor the siblings: until the summary is
\* printed some step is always possible, at the end every task handed to a
\* par_iter has run, and every failed call of a task is in errors.
C9_FailuresAreLocal ==
  /\ ~Done => SomeoneCanStep
  /\ Done => /\ AllTasksDone
             /\ \A id \in DOMAIN task : hist.handed[task[id].path] >= 1
  /\ stats.errors >= Cardinality({pt \in failed : pt[1] \in ErrSites})

\* C9 witness: a child of a fanned-out directory failed and its siblings
\* were removed all the same
C9_Witness ==
  /\ Done
  /\ failed = {<<"rm_file", "a">>}
  /\ paths = <<"x">> /\ LargeTree
  /\ "a" \in exists /\ "b" \notin exists /\ "d" \notin exists
  /\ stats.errors = 2

\* C10: in parallel_remove_large_dir a NotFound from the final remove_dir
\* moves neither errors nor dirs_deleted; any other failure adds 1 to errors
\* and nothing to dirs_deleted.
C10_NotFoundIsNoError ==
  [][\A p \in Nodes :
       /\ <<"fan_vanish", p>> \in failed' \ failed =>
            stats'.errors = stats.errors /\ stats'.dirs_deleted = stats.dirs_deleted
       /\ <<"fan_rmdir", p>> \in failed' \ failed =>
            stats'.errors = stats.errors + 1 /\ stats'.dirs_deleted = stats.dirs_deleted
    ]_vars

\* the tasks spawned below the task id, at every depth
Descendants(id) ==
  {c \in DOMAIN task : Len(c) > Len(id) /\ SubSeq(c, 1, Len(id)) = id}

\* every task below id has returned, the plain-file tasks included
SubtreeJoined(id) ==
  /\ \A c \in Descendants(id) : task[c].pc = "done"
  /\ (fl.made /\ Len(fl.owner) >= Len(id)
        /\ SubSeq(fl.owner, 1, Len(id)) = id) => FlDone

\* C11: the remove_dir of a fanned-out directory is made only when every
\* task spawned below it, at every depth, has returned; the cleanup
\* remove_dir of the roots is made only when every dispatched task has
\* returned; a task that has returned has no task below it still pending.
C11_JoinBarrier ==
  /\ [][\A id \in DOMAIN task :
          (task[id].pc = "join" /\ task'[id].pc = "done") => SubtreeJoined(id)]_vars
  /\ [][\A p \in Nodes :
          (main = "cleanup" /\ hist'.delcalls[p] # hist.delcalls[p]) =>
            AllTasksDone]_vars
  /\ [](\A id \in DOMAIN task : task[id].pc = "done" => SubtreeJoined(id))
  /\ [](main \in {"cleanup", "summary", "done"} => AllTasksDone)

\* C11 witness: with two workers, a fan-out inside a fan-out has handed out
\* its plain files and both directories have passed their barrier
C11_Witness ==
  /\ num_threads = 2
  /\ \E id \in DOMAIN task :
       /\ Len(id) = 2 /\ task[id].pc = "done"
       /\ fl.made /\ fl.owner = id
       /\ task[<<id[1]>>].pc = "done"
       /\ hist.delcalls[task[id].path] = 1
       /\ hist.delcalls[task[<<id[1]>>].path] = 1

\* the failures a counting walk can meet and, by C12, go on after
WalkSites == {"cnt_readdir", "cnt_ftype"}

\* C12: in a run on one root, when the counting walk of a bulk-removed
\* directory met a failed listing or file-type read, remove_dir_all was
\* still called on that directory once the task returned; and a failed
\* remove_dir_all is one error for the subtree, called once.
C12_WalkFailureDoesNotAbort ==
  (Len(paths) = 1 /\ failed # {}) =>
    \A id \in DOMAIN task :
      LET p == task[id].path IN
      (task[id].pc = "done" /\ p \in hist.tree0 /\ kind[p] = "dir") =>
        /\ (\A pt \in failed : pt[1] \in WalkSites /\ pt[2] \in Subtree(p)) =>
             hist.delcalls[p] = 1
        /\ failed = {<<"rm_all", p>>} =>
             hist.delcalls[p] = 1 /\ stats.errors >= 1

\* C13: in a run on one root, when the only failures are file-type reads
\* inside the size probe, no task ends with an error and every directory
\* handed to a task was classified and got its delete call; a failed listing
\* inside the probe ends the task of the probed directory with one error.
C13_ProbeSkipsUnreadableType ==
  (Len(paths) = 1 /\ failed # {}) =>
    /\ (\A pt \in failed : pt[1] = "est_ftype") =>
         /\ stats.errors = 0
         /\ \A id \in DOMAIN task :
              LET p == task[id].path IN
              (task[id].pc = "done" /\ p \in hist.tree0 /\ kind[p] = "dir") =>
                hist.delcalls[p] = 1
    /\ \A p \in Nodes :
         (failed = {<<"est_readdir", p>>} /\ AllTasksDone) => stats.errors >= 1

\* a root that was a directory before the run (a symlink is not one)
RealDir0(p) == p \in hist.tree0 /\ kind[p] = "dir"
Children0(p) == {c \in hist.tree0 : parent[c] = p}

\* the items the flatten branch is to dispatch for the roots i, i+1, ...
RECURSIVE FlatItems(_)
FlatItems(i) ==
  IF i > Len(paths) THEN <<>>
  ELSE LET p == paths[i]
           own == IF RealDir0(p) /\ <<"top_readdir", p>> \notin failed
                  THEN SetToSeq(Children0(p)) ELSE <<p>>
       IN own \o FlatItems(i + 1)

ExpectedItems == IF Direct THEN paths ELSE FlatItems(1)

Dispatched == main \in {"par", "cleanup", "summary", "done"}

\* C14: once the top-level par_iter is started, with no entry dropped from a
\* listing, the dispatched tasks are one per root when roots >= N, and
\* otherwise one per child of every directory root (the root itself when its
\* listing failed) and one per other root; in that branch a root directory
\* is then removed by the cleanup and counted, and a NotFound there is no
\* error.
C14_DispatchPolicy ==
  /\ (Dispatched /\ \A pt \in failed : pt[1] # "top_entry") =>
       /\ all_items = ExpectedItems
       /\ \A i \in 1..Len(all_items) :
            <<i>> \in DOMAIN task /\ task[<<i>>].path = all_items[i]
       /\ \A id \in DOMAIN task : Len(id) = 1 => id[1] \in 1..Len(all_items)
       /\ (fl.made /\ fl.owner = <<>>) <=>
            (~Direct /\ hist.fill0 > 0 /\ \E i \in 1..Len(paths) :
               paths[i] = FillDir /\ RealDir0(FillDir)
                 /\ <<"top_readdir", FillDir>> \notin failed)
  /\ (Done /\ ~Direct /\ Len(paths) = 1 /\ RealDir0(paths[1])) =>
       /\ NoFailure =>
            /\ paths[1] \notin exists
            /\ hist.delcalls[paths[1]] = 1
            /\ stats.dirs_deleted >= 1
       /\ failed = {<<"top_vanish", paths[1]>>} => stats.errors = 0

\* C15: in every state of every run, no path has been the target of more
\* than one delete call (remove_file, remove_dir, remove_dir_all) and no
\* path has been handed to more than one remove_path_recursive task.
C15_OneAttemptPerPath ==
  \A p \in Nodes : hist.delcalls[p] <= 1 /\ hist.handed[p] <= 1

\* the entries below p on disk now, at every depth, symlinks not followed
EntriesNow(p) ==
  Cardinality((Subtree(p) \ {p}) \cap exists)
    + (IF FillDir \in Subtree(p) \cap exists THEN nfill ELSE 0)

DirPcs == {"hybrid", "estimate", "count", "rmall", "list", "join"}
FilePcs == {"file", "unlink"}

\* C16: a task whose path is a directory and not a symlink goes through
\* hybrid_remove and every other path to remove_file_with_stats; when the
\* probe of a directory ends without a failure, the task goes to the bulk
\* path exactly when the directory holds fewer than LargeThreshold entries
\* and to the fan-out otherwise; this holds for the tasks of fan-out
\* children as for the top-level ones.
C16_Routing ==
  /\ [](\A id \in DOMAIN task :
          /\ task[id].pc \in DirPcs => kind[task[id].path] = "dir"
          /\ task[id].pc \in FilePcs => kind[task[id].path] # "dir")
  /\ [][\A id \in DOMAIN task :
          (task[id].pc = "estimate" /\ task'[id].pc \in {"count", "list"}
             /\ failed' = failed) =>
            /\ EntriesNow(task[id].path) < LargeThreshold => task'[id].pc = "count"
            /\ EntriesNow(task[id].path) >= LargeThreshold => task'[id].pc = "list"
       ]_vars

\* C16 witness: inside a fanned-out directory, a small subdirectory is on
\* the bulk path
C16_Witness ==
  \E id \in DOMAIN task :
    /\ Len(id) = 2 /\ task[id].pc = "rmall"
    /\ task[<<id[1]>>].pc = "join"
    /\ hist.fill0 > 0

\* =========================================================================
\* estimate_dir_size on its own: the probe of one directory of a tree that
\* holds up to a few entries more than max_check
\* =========================================================================

ProbeRoots == {"x", "b", "d", "t"}
ProbeFills == {0, LargeThreshold} \cup ((max_check - 6) .. (max_check + 2))

ProbeInit ==
  /\ num_threads = 1
  /\ exists \in Shapes
  /\ paths \in {<<r>> : r \in ProbeRoots \cap exists}
  /\ nfill \in ProbeFills
  /\ stats = ZeroStats
  /\ main = "probe"
  /\ idx = 0
  /\ all_items = <<>>
  /\ task = <<>>
  /\ fl = [owner |-> <<>>, made |-> FALSE, todo |-> 0, file |-> 0, unlink |-> 0]
  /\ failed = {}
  /\ hist = [added |-> ZeroStats,
             handed |-> [n \in Nodes |-> 0],
             delcalls |-> [n \in Nodes |-> 0],
             listed |-> {},
             lists |-> 0,
             summary |-> <<>>,
             tree0 |-> exists,
             fill0 |-> nfill]

\* :115  let dir_size = estimate_dir_size(path)?  with no failing call: idx
\* takes the count returned, all_items the directories listed on the way
Probe ==
  /\ main = "probe"
  /\ LET r == estimate_dir_size(paths[1], {}) IN
     /\ r.ok
     /\ idx' = r.count
     /\ all_items' = r.seen
  /\ main' = "probed"
  /\ UNCHANGED <<num_threads, paths, exists, nfill, stats, task, fl, failed, hist>>

ProbeNext == Probe

ProbeSpec == ProbeInit /\ [][ProbeNext]_vars

\* the directories below and including p
DirsNow(p) == {q \in Subtree(p) \cap exists : kind[q] = "dir"}

\* C17: a probe in which no call fails returns the number of entries below
\* the directory when that number is at most max_check and max_check + 1
\* otherwise; no directory is listed once the count has passed max_check,
\* and below the cap every directory of the subtree is listed once.
C17_ProbeIsCapped ==
  main = "probed" =>
    LET n == EntriesNow(paths[1]) IN
    /\ idx = IF n <= max_check THEN n ELSE max_check + 1
    /\ idx <= max_check + 1
    /\ \A k \in 1..Len(all_items) : all_items[k][2] <= max_check
    /\ \A k, j \in 1..Len(all_items) : k # j => all_items[k][1] # all_items[j][1]
    /\ n <= max_check =>
         {all_items[k][1] : k \in 1..Len(all_items)} = DirsNow(paths[1])

\* C17 witness: the tree holds more than max_check + 1 entries, the probe
\* returned max_check + 1 and left a directory of the tree unlisted
C17_Witness ==
  /\ main = "probed"
  /\ EntriesNow(paths[1]) > max_check + 1
  /\ idx = max_check + 1
  /\ \E q \in DirsNow(paths[1]) :
       q \notin {all_items[k][1] : k \in 1..Len(all_items)}

\* a failure injected by another process removing a directory
VanishSites == {"top_vanish", "fan_vanish"}

\* what is left on disk of the roots and of what was below them
LeftOver ==
  UNION {Subtree(paths[i]) \cap exists : i \in 1..Len(paths)}

DisjointRoots ==
  \A i, j \in 1..Len(paths) : i # j => paths[i] \notin Subtree(paths[j])

\* the named entries at or below the roots before the run
UnderRoots0 ==
  UNION {Subtree(paths[i]) \cap hist.tree0 : i \in 1..Len(paths)}
FillUnderRoots0 == IF FillDir \in UnderRoots0 THEN hist.fill0 ELSE 0

\* C19: with pairwise disjoint roots, in every state of every run
\* files_deleted is at most the number of non-directory entries that were
\* at or below the roots, dirs_deleted at most the number of directories
\* (roots included) and bytes_deleted at most the sum of the sizes of the
\* non-directory entries.
C19_NoOverCounting ==
  DisjointRoots =>
    /\ stats.files_deleted <=
         Cardinality({n \in UnderRoots0 : kind[n] # "dir"}) + FillUnderRoots0
    /\ stats.dirs_deleted <= Cardinality({n \in UnderRoots0 : kind[n] = "dir"})
    /\ stats.bytes_deleted <=
         SumSize({n \in UnderRoots0 : kind[n] # "dir"})
           + FillUnderRoots0 * FillerBytes

\* =========================================================================
\* Fair scheduling: the main thread and the rayon workers keep taking the
\* steps that are possible
\* =========================================================================

\* the runs on one root: directly (one worker) or flattened (two workers)
FairInit == Init /\ (Len(paths) = 1 \/ exists = BareTree)

FairSpec == FairInit /\ [][Next]_vars /\ WF_vars(Next)

\* C20: under fair scheduling every run reaches the end of
\* parallel_remove_top_level, with every spawned task returned and every
\* barrier passed, whatever calls fail.
C20_Terminates == <>(Done /\ AllTasksDone)

\* C20 witness: a run with two workers, a fan-out and a failed call has
\* reached its end
C20_Witness ==
  /\ Done /\ AllTasksDone
  /\ num_threads = 2
  /\ failed # {}
  /\ \E id \in DOMAIN task : Kids(id) # {}

====
